---- MODULE Spec2Model ----
(***************************************************************************)
(* Model of the sliding-window rate limiter of weathersite:                *)
(* ratelimit/throttle.py (check_rate_limit and the with_rate_limit         *)
(* wrapper) running against Django's cache and the wall clock.             *)
(*                                                                         *)
(* Every request is executed by a worker p.  The steps of one request are  *)
(* the points at which it touches shared state: the cache get (line 57),   *)
(* the clock read (line 58), the cache set (line 69) and the wrapped view  *)
(* (line 81).  Time is an integer clock that never goes backwards.         *)
(***************************************************************************)
EXTENDS Integers, Sequences, FiniteSets, TLC

\* ---------------------------------------------------------------- bounds
MaxTime == 61          \* the clock stops advancing here
MaxRequests == 3       \* throttled checks (Accepted or Rejected) per run
MaxQuota == 2          \* largest number_of_requests a route is given
NumWorkers == 2        \* workers that may run requests

TickSteps == {30, 31}  \* amounts by which the clock advances
Keys == {"a", "b"}     \* client addresses
Workers == 1..NumWorkers

\* ------------------------------------------------------- program constants
None == "None"
DEFAULT_DURATION == 60
DEFAULT_RATE_LIMIT_PER_MINUTE == 2
NUMBER_OF_REQUESTS == DEFAULT_RATE_LIMIT_PER_MINUTE
HTTP_200_OK == 200
HTTP_429_TOO_MANY_REQUESTS == 429

\* The number_of_requests argument: <<>> is Python's None, <<n>> the int n.
QuotaArgs == {<<>>} \cup {<<n>> : n \in 0..MaxQuota}

VARIABLES
  clock,     \* time.time()
  cache,     \* default_cache: key -> [val, exp], absent keys not in DOMAIN
  quotas,    \* the number_of_requests arguments the routes are wrapped with
  pc,        \* position of each worker in wrapper/check_rate_limit
  req,       \* the request a worker is serving: [auth, ip, arg]
  history,   \* local variable history
  now,       \* local variable now
  result,    \* what check_rate_limit returned
  storeOps,  \* cache operations performed by the worker's current request
  sent,      \* the answer given by the latest step, if it gave one:
             \* [req, result, storeOps, response]
  log        \* throttled verdicts in the order they were issued

vars == <<clock, cache, quotas, pc, req, history, now, result, storeOps,
          sent, log>>

\* ------------------------------------------------------------ pure helpers

\* `number_of_requests or NUMBER_OF_REQUESTS`: None and 0 are falsy.
EffectiveQuota(arg) ==
  IF arg = <<>> \/ arg[1] = 0 THEN NUMBER_OF_REQUESTS ELSE arg[1]

get_cache_key_shared(request) ==
  IF request.ip = None THEN None ELSE CHOOSE k \in Keys : TRUE
get_cache_key(request) == request.ip

BypassNever(request) == FALSE
BypassKeyFirst(request) == request.auth /\ get_cache_key(request) /= None
\* if request.user.is_authenticated
Bypass(request) == request.auth

\* default_cache.get(key, default) at time t: a missing or expired entry
\* yields the default.
CacheGet(c, key, default, t) ==
  IF key \in DOMAIN c /\ c[key].exp > t THEN c[key].val ELSE default

CacheSetKeepExpiry(c, key, value, timeout, t) ==
  [k \in (DOMAIN c) \cup {key} |->
     IF k = key
     THEN [val |-> value,
           exp |-> IF key \in DOMAIN c /\ c[key].exp > t
                   THEN c[key].exp ELSE t + timeout]
     ELSE c[k]]
CacheSetFromOldest(c, key, value, timeout, t) ==
  [k \in (DOMAIN c) \cup {key} |->
     IF k = key THEN [val |-> value, exp |-> value[Len(value)] + timeout]
     ELSE c[k]]
\* default_cache.set(key, value, timeout) at time t.
CacheSet(c, key, value, timeout, t) ==
  [k \in (DOMAIN c) \cup {key} |->
     IF k = key THEN [val |-> value, exp |-> t + timeout] ELSE c[k]]

RECURSIVE PruneStrict(_, _, _)
PruneStrict(h, t, duration) ==
  IF h /= <<>> /\ h[Len(h)] < t - duration
  THEN PruneStrict(SubSeq(h, 1, Len(h) - 1), t, duration)
  ELSE h
RECURSIVE PruneAll(_, _, _)
PruneAll(h, t, duration) ==
  IF h /= <<>> /\ h[Len(h)] <= t
  THEN PruneAll(SubSeq(h, 1, Len(h) - 1), t, duration)
  ELSE h
PruneOne(h, t, duration) ==
  IF h /= <<>> /\ h[Len(h)] <= t - duration
  THEN SubSeq(h, 1, Len(h) - 1)
  ELSE h
\* while history and history[-1] <= now - duration: history.pop()
RECURSIVE Prune(_, _, _)
Prune(h, t, duration) ==
  IF h /= <<>> /\ h[Len(h)] <= t - duration
  THEN Prune(SubSeq(h, 1, Len(h) - 1), t, duration)
  ELSE h

ExceededOff(h, n) == Len(h) > n
\* if len(history) >= number_of_requests
Exceeded(h, n) == Len(h) >= n

InsertEnd(h, t) == h \o <<t>>
\* history.insert(0, now)
Insert0(h, t) == <<t>> \o h

RemainingOff(h, n) == n - Len(h) + 1
\* number_of_requests - len(history)
Remaining(h, n) == n - Len(h)

\* Results of check_rate_limit.
NotLimited == [exc |-> "none", throttled |-> FALSE]
Accepted(limit, remaining) ==
  [exc |-> "none", throttled |-> TRUE, limit |-> limit, remaining |-> remaining]
Raised(e) == [exc |-> e]
Pending == [exc |-> "pending"]

\* Responses of the wrapper.
NoResponse == [status |-> 0, headers |-> [h \in {} |-> 0]]
ViewResponse == [status |-> HTTP_200_OK, headers |-> [h \in {} |-> 0]]
RateHeaders == {"X-CURRENT-RATE-LIMIT", "X-REMAINING-CALLS"}
DecorateSwapped(resp, res) ==
  IF res.throttled
  THEN [resp EXCEPT !.headers =
          [h \in RateHeaders |->
             IF h = "X-CURRENT-RATE-LIMIT" THEN res.remaining ELSE res.limit]]
  ELSE resp
\* if throttled: response[...] = limit_requests; response[...] = pending_requests
Decorate(resp, res) ==
  IF res.throttled
  THEN [resp EXCEPT !.headers =
          [h \in RateHeaders |->
             IF h = "X-CURRENT-RATE-LIMIT" THEN res.limit ELSE res.remaining]]
  ELSE resp
\* Response(status=status.HTTP_429_TOO_MANY_REQUESTS)
TooManyRequests ==
  [status |-> HTTP_429_TOO_MANY_REQUESTS, headers |-> [h \in {} |-> 0]]
PropagatedAs429(e) == TooManyRequests
\* An exception that leaves the wrapper.
Propagated(e) == [status |-> 0, headers |-> [h \in {} |-> 0], raised |-> e]

NoRequest == [auth |-> FALSE, ip |-> None, arg |-> <<>>]
Nothing == [req |-> NoRequest, result |-> Pending, storeOps |-> {},
            response |-> NoResponse]

InFlight == {p \in Workers : pc[p] \in {"got", "set"}}

\* The worker a new request is handed to: the first idle one.
FreeWorker(p) == pc[p] = "idle" /\ \A o \in Workers : o < p => pc[o] /= "idle"

\* ------------------------------------------------------------------ Init
InitCommon ==
  /\ clock = 0
  /\ cache = [k \in {} |-> 0]
  /\ pc = [p \in Workers |-> "idle"]
  /\ req = [p \in Workers |-> NoRequest]
  /\ history = [p \in Workers |-> <<>>]
  /\ now = [p \in Workers |-> 0]
  /\ result = [p \in Workers |-> Pending]
  /\ storeOps = [p \in Workers |-> {}]
  /\ sent = Nothing
  /\ log = <<>>

\* One quota for the whole site.
Init ==
  /\ InitCommon
  /\ \E a \in QuotaArgs : quotas = {a}

\* ---------------------------------------------------------------- actions

\* The worker's locals are gone once the wrapper has returned.
Reset(p) ==
  /\ pc' = [pc EXCEPT ![p] = "idle"]
  /\ req' = [req EXCEPT ![p] = NoRequest]
  /\ history' = [history EXCEPT ![p] = <<>>]
  /\ now' = [now EXCEPT ![p] = 0]
  /\ result' = [result EXCEPT ![p] = Pending]
  /\ storeOps' = [storeOps EXCEPT ![p] = {}]

\* wrapper entry and check_rate_limit up to the cache read (lines 78-80,
\* 48-57).  NotAuthenticated is not caught by the wrapper and propagates.
Begin(p, r) ==
  /\ FreeWorker(p)
  /\ r.arg \in quotas
  /\ Len(log) + Cardinality(InFlight) < MaxRequests
  /\ IF Bypass(r)
     THEN /\ req' = [req EXCEPT ![p] = r]
          /\ result' = [result EXCEPT ![p] = NotLimited]
          /\ pc' = [pc EXCEPT ![p] = "view"]
          /\ sent' = Nothing
          /\ UNCHANGED <<history, storeOps>>
     ELSE IF get_cache_key(r) = None
     THEN /\ sent' = [req |-> r, result |-> Raised("NotAuthenticated"),
                      storeOps |-> {},
                      response |-> Propagated("NotAuthenticated")]
          /\ UNCHANGED <<req, result, pc, history, storeOps>>
     ELSE /\ req' = [req EXCEPT ![p] = r]
          /\ history' = [history EXCEPT ![p] =
                           CacheGet(cache, get_cache_key(r), <<>>, clock)]
          /\ storeOps' = [storeOps EXCEPT ![p] = {"get"}]
          /\ pc' = [pc EXCEPT ![p] = "got"]
          /\ sent' = Nothing
          /\ UNCHANGED result
  /\ UNCHANGED <<clock, cache, quotas, now, log>>

DecideRecordRejected(p) ==
  /\ pc[p] = "got"
  /\ LET n == EffectiveQuota(req[p].arg)
         h == Prune(history[p], clock, DEFAULT_DURATION)
     IN IF Exceeded(h, n)
        THEN /\ sent' = [req |-> req[p], result |-> Raised("RateExceeded"),
                         storeOps |-> storeOps[p],
                         response |-> TooManyRequests]
             /\ log' = Append(log, [key |-> get_cache_key(req[p]),
                                    now |-> clock, verdict |-> "Rejected",
                                    limit |-> n, remaining |-> 0])
             /\ Reset(p)
             /\ cache' = CacheSet(cache, get_cache_key(req[p]),
                                  Insert0(h, clock), DEFAULT_DURATION, clock)
             /\ UNCHANGED <<clock, quotas>>
        ELSE /\ history' = [history EXCEPT ![p] = Insert0(h, clock)]
             /\ now' = [now EXCEPT ![p] = clock]
             /\ pc' = [pc EXCEPT ![p] = "set"]
             /\ sent' = Nothing
             /\ UNCHANGED <<req, result, storeOps, log>>
             /\ UNCHANGED <<clock, cache, quotas>>
DecideWriteBack(p) ==
  /\ pc[p] = "got"
  /\ LET n == EffectiveQuota(req[p].arg)
         h == Prune(history[p], clock, DEFAULT_DURATION)
     IN IF Exceeded(h, n)
        THEN /\ sent' = [req |-> req[p], result |-> Raised("RateExceeded"),
                         storeOps |-> storeOps[p],
                         response |-> TooManyRequests]
             /\ log' = Append(log, [key |-> get_cache_key(req[p]),
                                    now |-> clock, verdict |-> "Rejected",
                                    limit |-> n, remaining |-> 0])
             /\ Reset(p)
             /\ cache' = CacheSet(cache, get_cache_key(req[p]), h,
                                  DEFAULT_DURATION, clock)
             /\ UNCHANGED <<clock, quotas>>
        ELSE /\ history' = [history EXCEPT ![p] = Insert0(h, clock)]
             /\ now' = [now EXCEPT ![p] = clock]
             /\ pc' = [pc EXCEPT ![p] = "set"]
             /\ sent' = Nothing
             /\ UNCHANGED <<req, result, storeOps, log>>
             /\ UNCHANGED <<clock, cache, quotas>>
\* now = time.time(), the pruning loop and the decision (lines 58-68).
\* RateExceeded is caught by the wrapper and answered with a 429 (87-88).
Decide(p) ==
  /\ pc[p] = "got"
  /\ LET n == EffectiveQuota(req[p].arg)
         h == Prune(history[p], clock, DEFAULT_DURATION)
     IN IF Exceeded(h, n)
        THEN /\ sent' = [req |-> req[p], result |-> Raised("RateExceeded"),
                         storeOps |-> storeOps[p],
                         response |-> TooManyRequests]
             /\ log' = Append(log, [key |-> get_cache_key(req[p]),
                                    now |-> clock, verdict |-> "Rejected",
                                    limit |-> n, remaining |-> 0])
             /\ Reset(p)
        ELSE /\ history' = [history EXCEPT ![p] = Insert0(h, clock)]
             /\ now' = [now EXCEPT ![p] = clock]
             /\ pc' = [pc EXCEPT ![p] = "set"]
             /\ sent' = Nothing
             /\ UNCHANGED <<req, result, storeOps, log>>
  /\ UNCHANGED <<clock, cache, quotas>>

StoreDeferred(p) ==
  /\ pc[p] = "set"
  /\ LET n == EffectiveQuota(req[p].arg)
         key == get_cache_key(req[p])
     IN /\ cache' = cache
        /\ result' = [result EXCEPT ![p] =
                        Accepted(n, Remaining(history[p], n))]
        /\ log' = Append(log, [key |-> key, now |-> now[p],
                               verdict |-> "Accepted", limit |-> n,
                               remaining |-> Remaining(history[p], n)])
  /\ storeOps' = [storeOps EXCEPT ![p] = @ \cup {"set"}]
  /\ pc' = [pc EXCEPT ![p] = "view"]
  /\ sent' = Nothing
  /\ UNCHANGED <<clock, quotas, req, history, now>>
\* default_cache.set and the return (lines 69-70).
Store(p) ==
  /\ pc[p] = "set"
  /\ LET n == EffectiveQuota(req[p].arg)
         key == get_cache_key(req[p])
     IN /\ cache' = CacheSet(cache, key, history[p], DEFAULT_DURATION, clock)
        /\ result' = [result EXCEPT ![p] =
                        Accepted(n, Remaining(history[p], n))]
        /\ log' = Append(log, [key |-> key, now |-> now[p],
                               verdict |-> "Accepted", limit |-> n,
                               remaining |-> Remaining(history[p], n)])
  /\ storeOps' = [storeOps EXCEPT ![p] = @ \cup {"set"}]
  /\ pc' = [pc EXCEPT ![p] = "view"]
  /\ sent' = Nothing
  /\ UNCHANGED <<clock, quotas, req, history, now>>

\* The wrapped view runs and the headers are attached (lines 81-86).
View(p) ==
  /\ pc[p] = "view"
  /\ sent' = [req |-> req[p], result |-> result[p], storeOps |-> storeOps[p],
              response |-> Decorate(ViewResponse, result[p])]
  /\ Reset(p)
  /\ UNCHANGED <<clock, cache, quotas, log>>

\* Time passes.
Tick(d) ==
  /\ clock + d <= MaxTime
  /\ clock' = clock + d
  /\ sent' = Nothing
  /\ UNCHANGED <<cache, quotas, pc, req, history, now, result, storeOps, log>>

\* default_cache.get raises (line 57): the exception leaves
\* check_rate_limit and, not being RateExceeded, the wrapper too.
GetFails(p, r) ==
  /\ FreeWorker(p)
  /\ r.arg \in quotas
  /\ ~Bypass(r)
  /\ get_cache_key(r) /= None
  /\ sent' = [req |-> r, result |-> Raised("StoreError"),
              storeOps |-> {"get"}, response |-> Propagated("StoreError")]
  /\ UNCHANGED <<clock, cache, quotas, pc, req, history, now, result,
                 storeOps, log>>

\* default_cache.set raises (line 69): nothing is stored, nothing is
\* returned, the exception leaves the wrapper.
SetFails(p) ==
  /\ pc[p] = "set"
  /\ sent' = [req |-> req[p], result |-> Raised("StoreError"),
              storeOps |-> storeOps[p] \cup {"set"},
              response |-> Propagated("StoreError")]
  /\ Reset(p)
  /\ UNCHANGED <<clock, cache, quotas, log>>

\* The wrapped view raises (line 81): the exception leaves the wrapper.
ViewFails(p) ==
  /\ pc[p] = "view"
  /\ sent' = [req |-> req[p], result |-> result[p], storeOps |-> storeOps[p],
              response |-> Propagated("ViewError")]
  /\ Reset(p)
  /\ UNCHANGED <<clock, cache, quotas, log>>

Requests == [auth : BOOLEAN, ip : Keys \cup {None}, arg : QuotaArgs]

\* Requests are processed one at a time.
Serial == \A o \in Workers : pc[o] = "idle"

Next ==
  \/ \E p \in Workers, r \in Requests : Serial /\ Begin(p, r)
  \/ \E p \in Workers : Decide(p)
  \/ \E p \in Workers : Store(p)
  \/ \E p \in Workers : View(p)
  \/ \E d \in TickSteps : Tick(d)

Spec == Init /\ [][Next]_vars

\* Requests of different workers interleave at every step.
NextConc ==
  \/ \E p \in Workers, r \in Requests : Begin(p, r)
  \/ \E p \in Workers : Decide(p)
  \/ \E p \in Workers : Store(p)
  \/ \E p \in Workers : View(p)
  \/ \E d \in TickSteps : Tick(d)

\* One explicit quota of at least 1 for the whole site.
InitConc ==
  /\ InitCommon
  /\ \E n \in 1..MaxQuota : quotas = {<<n>>}

SpecConc == InitConc /\ [][NextConc]_vars

\* Requests one at a time; the cache and the view may fail.
NextFaults ==
  \/ Next
  \/ \E p \in Workers, r \in Requests : Serial /\ GetFails(p, r)
  \/ \E p \in Workers : SetFails(p)
  \/ \E p \in Workers : ViewFails(p)

SpecFaults == Init /\ [][NextFaults]_vars

\* Time does not stand still.
SpecLive == Init /\ [][Next]_vars /\ WF_vars(\E d \in TickSteps : Tick(d))

\* Routes with every explicit quota from 1 to MaxQuota, requests one at a
\* time.
InitRoutes ==
  /\ InitCommon
  /\ quotas = {<<n>> : n \in 1..MaxQuota}

SpecRoutes == InitRoutes /\ [][Next]_vars

\* ------------------------------------------------------------- properties

Window == DEFAULT_DURATION

\* Log positions of the requests of key k accepted in (t - Window, t].
AcceptedIn(k, t) ==
  {i \in DOMAIN log : /\ log[i].key = k
                      /\ log[i].verdict = "Accepted"
                      /\ t - Window < log[i].now
                      /\ log[i].now <= t}

\* Log positions before j of the accepted requests of the key of j that
\* are inside the window ending at time t.
LiveBefore(j, t) ==
  {i \in 1..(j - 1) : /\ log[i].key = log[j].key
                      /\ log[i].verdict = "Accepted"
                      /\ log[i].now > t - Window}

\* C1: with one quota q >= 1 (or the default) in force and requests
\* processed one at a time, no key has more than q accepted requests with
\* timestamps in any interval (t - Window, t].
C1_QuotaSequential ==
  \A a \in quotas : a /= <<0>> =>
    \A k \in Keys, t \in 0..MaxTime :
      Cardinality(AcceptedIn(k, t)) <= EffectiveQuota(a)

\* The quota was reached: a request was turned down.
C1_Witness ==
  \E j \in DOMAIN log :
    /\ log[j].verdict = "Rejected"
    /\ Cardinality(AcceptedIn(log[j].key, log[j].now)) = log[j].limit

\* C2: with the get, the clock read and the set of concurrent requests of
\* one key interleaved in any order, the number of requests accepted in one
\* rolling window never exceeds the quota.
C2_QuotaConcurrent ==
  \A k \in Keys, j \in DOMAIN log :
    log[j].key = k => Cardinality(AcceptedIn(k, log[j].now)) <= log[j].limit

\* C3: a request of an authenticated principal always gets the not-limited
\* result, performs no cache operation and is answered without rate-limit
\* headers, whatever its address and the stored history.
C3_Bypass ==
  /\ \A p \in Workers : req[p].auth =>
       /\ pc[p] = "view"
       /\ result[p] = NotLimited
       /\ storeOps[p] = {}
  /\ sent.req.auth =>
       /\ sent.result = NotLimited
       /\ sent.storeOps = {}
       /\ sent.response = ViewResponse

\* An authenticated request is answered while the history stored for its
\* address is full.
C3_Witness ==
  /\ sent.req.auth
  /\ sent.req.ip \in DOMAIN cache
  /\ cache[sent.req.ip].exp > clock
  /\ Len(cache[sent.req.ip].val) >= EffectiveQuota(sent.req.arg)

\* C4: a check that ends in Rejected leaves the cache (every history and
\* every expiry time) as it was when the check began: neither its read nor
\* its rejection writes.
C4_RejectionLeavesStore ==
  [][\A p \in Workers :
       (\/ pc[p] = "idle" /\ pc'[p] = "got"
        \/ pc[p] = "got" /\ sent'.result = Raised("RateExceeded"))
       => cache' = cache]_vars

\* A request was just rejected and the entry of its key is in the cache.
C4_Witness ==
  /\ sent.result = Raised("RateExceeded")
  /\ sent.req.ip \in DOMAIN cache
  /\ cache[sent.req.ip].exp > clock

\* C5: a check counts no request accepted Window or more before it: the
\* history it counts holds only timestamps newer than now - Window, an
\* Accepted verdict counts at most the accepted requests still inside the
\* window, and a Rejected verdict has a full window of them.
C5_WindowExpiry ==
  /\ \A p \in Workers : pc[p] = "set" =>
       \A i \in 2..Len(history[p]) : history[p][i] > now[p] - Window
  /\ \A j \in DOMAIN log :
       LET live == Cardinality(LiveBefore(j, log[j].now))
       IN IF log[j].verdict = "Accepted"
          THEN log[j].limit - log[j].remaining - 1 <= live
          ELSE live >= log[j].limit

\* A request accepted exactly Window after an accepted request of the same
\* key finds the window empty.
C5_Witness ==
  \E i, j \in DOMAIN log :
    /\ i < j
    /\ log[i].key = log[j].key
    /\ log[i].verdict = "Accepted"
    /\ log[j].verdict = "Accepted"
    /\ log[j].now = log[i].now + Window
    /\ log[j].remaining = log[j].limit - 1

\* C6: an Accepted verdict is (True, limit, remaining) with limit the quota
\* in force, remaining = limit - len(history after the insert), and
\* 0 <= remaining <= limit - 1.
C6_AcceptedResult ==
  \A p \in Workers : (pc[p] = "view" /\ result[p].throttled) =>
    /\ result[p].exc = "none"
    /\ result[p].limit = EffectiveQuota(req[p].arg)
    /\ history[p][1] = now[p]
    /\ result[p].remaining = result[p].limit - Len(history[p])
    /\ result[p].remaining >= 0
    /\ result[p].remaining <= result[p].limit - 1

\* The last request the quota allows was accepted.
C6_Witness ==
  \E p \in Workers :
    /\ pc[p] = "view"
    /\ result[p].throttled
    /\ result[p].remaining = 0
    /\ Len(history[p]) > 1

\* The verdicts of key k, as log positions in order.
VerdictsOf(k) == {i \in DOMAIN log : log[i].key = k}
\* j is the verdict of its key that follows i.
FollowsOf(i, j) ==
  /\ i < j
  /\ log[i].key = log[j].key
  /\ \A m \in (i + 1)..(j - 1) : log[m].key /= log[i].key
\* At the verdict j neither the accepted request i nor anything that i
\* counted has expired.
SameWindow(i, j) ==
  (LiveBefore(i, log[i].now) \cup {i}) \subseteq LiveBefore(j, log[j].now)

\* C7: for one key and one quota, an Accepted verdict that opens a window
\* reports quota - 1, the Accepted verdict that follows an Accepted one in
\* the same window reports one less, and the verdict that follows an
\* Accepted one with remaining 0 in the same window is Rejected.
C7_RemainingMonotone ==
  /\ \A i \in DOMAIN log :
       (log[i].verdict = "Accepted" /\ LiveBefore(i, log[i].now) = {})
         => log[i].remaining = log[i].limit - 1
  /\ \A i, j \in DOMAIN log :
       (FollowsOf(i, j) /\ SameWindow(i, j) /\ log[i].verdict = "Accepted") =>
         IF log[i].remaining = 0
         THEN log[j].verdict = "Rejected"
         ELSE /\ log[j].verdict = "Accepted"
              /\ log[j].remaining = log[i].remaining - 1

\* Remaining went quota - 1, ..., 0 and the next request was rejected.
C7_Witness ==
  \E i, j, m \in DOMAIN log :
    /\ FollowsOf(i, j) /\ FollowsOf(j, m)
    /\ SameWindow(i, j) /\ SameWindow(j, m)
    /\ log[i].verdict = "Accepted" /\ log[i].remaining = 1
    /\ log[j].verdict = "Accepted" /\ log[j].remaining = 0
    /\ log[m].verdict = "Rejected"

\* C8: an unauthenticated request whose address cannot be resolved ends in
\* NotAuthenticated, which is neither a rejection nor an acceptance, without
\* any cache operation; an authenticated one is not limited all the same.
C8_IdentificationFailure ==
  /\ (sent /= Nothing /\ sent.req.ip = None /\ ~sent.req.auth) =>
       /\ sent.result = Raised("NotAuthenticated")
       /\ sent.result /= Raised("RateExceeded")
       /\ sent.storeOps = {}
       /\ sent.response = Propagated("NotAuthenticated")
       /\ sent.response.status \notin
            {HTTP_200_OK, HTTP_429_TOO_MANY_REQUESTS}
  /\ (sent.req.ip = None /\ sent.req.auth) =>
       /\ sent.result = NotLimited
       /\ sent.storeOps = {}
  /\ \A p \in Workers : pc[p] /= "idle" /\ req[p].ip = None => req[p].auth

\* A request without a resolvable address was answered while the cache
\* holds entries.
C8_Witness ==
  /\ sent /= Nothing
  /\ sent.req.ip = None
  /\ ~sent.req.auth
  /\ DOMAIN cache /= {}

\* C9: with quota 0 every check of an unauthenticated, identifiable client
\* is Rejected and no timestamp is ever recorded.
C9_QuotaZero ==
  quotas = {<<0>>} =>
    /\ \A j \in DOMAIN log : log[j].verdict = "Rejected"
    /\ \A p \in Workers : pc[p] /= "set"
    /\ DOMAIN cache = {}

\* C10: the response carries X-CURRENT-RATE-LIMIT = limit and
\* X-REMAINING-CALLS = remaining exactly when the check was Accepted; a
\* not-limited request gets the view's response and a rejected one a 429,
\* both without the headers.
C10_Decoration ==
  sent /= Nothing =>
    /\ (DOMAIN sent.response.headers /= {}) <=>
         (sent.result.exc = "none" /\ sent.result.throttled)
    /\ (sent.result.exc = "none" /\ sent.result.throttled) =>
         /\ sent.response.status = HTTP_200_OK
         /\ DOMAIN sent.response.headers = RateHeaders
         /\ sent.response.headers["X-CURRENT-RATE-LIMIT"] = sent.result.limit
         /\ sent.response.headers["X-REMAINING-CALLS"] = sent.result.remaining
    /\ sent.result = NotLimited => sent.response = ViewResponse
    /\ sent.result = Raised("RateExceeded") => sent.response = TooManyRequests

\* An accepted request was answered with remaining 0 on a limit of 2.
C10_Witness ==
  /\ sent.result.exc = "none"
  /\ sent.result.throttled
  /\ sent.response.headers = [h \in RateHeaders |->
       IF h = "X-CURRENT-RATE-LIMIT" THEN 2 ELSE 0]

\* C11: a request whose cache get or set fails ends with the failure
\* leaving the wrapper: it is answered neither with the view's response nor
\* with a 429, its worker never reaches the view, the failing step ends the
\* request at once (no retry) and leaves the cache as it was.
C11_FailClosed ==
  /\ [](sent.result = Raised("StoreError") =>
          /\ sent.response = Propagated("StoreError")
          /\ sent.response.status \notin
               {HTTP_200_OK, HTTP_429_TOO_MANY_REQUESTS}
          /\ DOMAIN sent.response.headers = {})
  /\ [][sent'.result = Raised("StoreError") =>
          /\ cache' = cache
          /\ log' = log
          /\ \A p \in Workers :
               /\ pc'[p] = "view" => pc[p] = "view"
               /\ pc'[p] /= pc[p] => (pc[p] = "set" /\ pc'[p] = "idle")]_vars

\* The set of a request that had been let through failed.
C11_Witness ==
  /\ sent.result = Raised("StoreError")
  /\ "set" \in sent.storeOps
  /\ sent.req.ip \notin DOMAIN cache

\* The values the clock can take, and the least value it can stop at.
RECURSIVE ClockReach(_)
ClockReach(S) ==
  LET N == S \cup {t \in 0..MaxTime : \E c \in S, d \in TickSteps : t = c + d}
  IN IF N = S THEN S ELSE ClockReach(N)
Horizon ==
  LET finals == {c \in ClockReach({0}) : \A d \in TickSteps : c + d > MaxTime}
  IN CHOOSE c \in finals : \A o \in finals : c <= o

\* Log positions of the accepted requests of key k.
AcceptedOf(k) ==
  {i \in DOMAIN log : log[i].key = k /\ log[i].verdict = "Accepted"}

\* C12: the cache changes only when a request is accepted, and then the
\* entry of its key is rewritten to expire Window after that write; no read
\* and no rejection moves an expiry.  The entry holds the timestamp of the
\* key's latest accepted request, and once the clock has reached the expiry
\* a get yields the empty history, which for an idle key eventually happens.
C12_EntryLifetime ==
  /\ [][cache' /= cache =>
          \E p \in Workers :
            /\ pc[p] = "set" /\ pc'[p] = "view"
            /\ log' = Append(log, log'[Len(log')])
            /\ log'[Len(log')].verdict = "Accepted"
            /\ cache' = [k \in (DOMAIN cache) \cup {req[p].ip} |->
                 IF k = req[p].ip
                 THEN [val |-> history[p], exp |-> clock + Window]
                 ELSE cache[k]]]_vars
  /\ [](\A k \in DOMAIN cache :
          /\ AcceptedOf(k) /= {}
          /\ \E i \in AcceptedOf(k) :
               /\ \A o \in AcceptedOf(k) : o <= i
               /\ cache[k].val[1] = log[i].now
          /\ clock >= cache[k].exp => CacheGet(cache, k, <<>>, clock) = <<>>)
  /\ \A k \in Keys :
       (k \in DOMAIN cache /\ cache[k].exp <= Horizon)
         ~> (\/ CacheGet(cache, k, <<>>, clock) = <<>>
             \/ cache[k].exp > Horizon)

\* The entry of a key has expired although a request of the key was
\* rejected after the entry was written.
C12_Witness ==
  \E k \in DOMAIN cache :
    /\ clock >= cache[k].exp
    /\ \E i, j \in DOMAIN log :
         /\ i < j
         /\ log[i].key = k /\ log[i].verdict = "Accepted"
         /\ log[j].key = k /\ log[j].verdict = "Rejected"
         /\ log[j].now > log[i].now

\* No timestamp of h is stale at time t.
NoStale(h, t) == \A i \in DOMAIN h : h[i] > t - Window

\* C13: whenever the count is compared with the quota the pruned history
\* holds no stale timestamp: popping from the tail up to the first fresh
\* entry removes every stale entry of the history a worker has read, and of
\* every stored history, at the time of the decision and at any later time.
C13_CompletePruning ==
  /\ \A p \in Workers : pc[p] = "got" =>
       \A t \in clock..MaxTime :
         NoStale(Prune(history[p], t, DEFAULT_DURATION), t)
  /\ \A p \in Workers : pc[p] = "set" =>
       NoStale(SubSeq(history[p], 2, Len(history[p])), now[p])
  /\ \A k \in DOMAIN cache : \A t \in clock..MaxTime :
       NoStale(Prune(cache[k].val, t, DEFAULT_DURATION), t)

\* A worker is about to decide on a history whose entries are all stale,
\* two of them or more.
C13_Witness ==
  \E p \in Workers :
    /\ pc[p] = "got"
    /\ Len(history[p]) >= 2
    /\ history[p][1] <= clock - Window

\* h is ordered most recent first.
NewestFirst(h) == \A i \in 1..(Len(h) - 1) : h[i] >= h[i + 1]

\* C14: every stored history, and every history a worker holds, is ordered
\* most recent first, in every interleaving of the workers.
C14_Ordering ==
  /\ \A k \in DOMAIN cache : NewestFirst(cache[k].val)
  /\ \A p \in Workers : NewestFirst(history[p])

\* A history with timestamps of two different times is stored while
\* another request of the same key is under way.
C14_Witness ==
  \E k \in DOMAIN cache :
    /\ Len(cache[k].val) >= 2
    /\ cache[k].val[1] > cache[k].val[2]
    /\ \E p \in Workers : pc[p] \in {"got", "set"} /\ req[p].ip = k

\* C15: with one quota q >= 1 in force, in every interleaving each stored
\* history has at most q entries, and so has the pruned history at every
\* decision and the history a worker is about to store.
C15_StoredLength ==
  \A a \in quotas : (a /= <<>> /\ a[1] >= 1) =>
    /\ \A k \in DOMAIN cache : Len(cache[k].val) <= a[1]
    /\ \A p \in Workers :
         /\ pc[p] = "got" =>
              \A t \in clock..MaxTime :
                Len(Prune(history[p], t, DEFAULT_DURATION)) <= a[1]
         /\ pc[p] = "set" => Len(history[p]) <= a[1]

\* Two workers serve the same key; one holds a full history, the other is
\* about to store one.
C15_Witness ==
  \E p, o \in Workers :
    /\ p /= o
    /\ req[p].ip = req[o].ip
    /\ pc[p] = "got"
    /\ pc[o] = "set"
    /\ \A a \in quotas : Len(history[p]) = EffectiveQuota(a)

\* The timestamps of the accepted requests of key k.
AcceptedTimes(k) == {log[i].now : i \in AcceptedOf(k)}
\* The elements of the sequence h.
Elements(h) == {h[i] : i \in DOMAIN h}

\* C16: the entry of a key is created or changed only by the set of a
\* request of that very client address, no entry ever disappears, and what
\* a worker reads and decides on is made of timestamps of accepted requests
\* of its own key only, in every interleaving.
C16_KeyIsolation ==
  /\ [][/\ DOMAIN cache \subseteq DOMAIN cache'
        /\ \A k \in DOMAIN cache' :
             (k \notin DOMAIN cache \/ cache'[k] /= cache[k]) =>
               \E p \in Workers :
                 /\ req[p].ip = k
                 /\ pc[p] = "set" /\ pc'[p] = "view"
                 /\ cache'[k].val = history[p]
        /\ \A p \in Workers : (pc[p] = "idle" /\ pc'[p] = "got") =>
             history'[p] = CacheGet(cache, req'[p].ip, <<>>, clock)]_vars
  /\ [](/\ \A k \in DOMAIN cache :
             Elements(cache[k].val) \subseteq AcceptedTimes(k)
        /\ \A p \in Workers :
             /\ pc[p] = "got" =>
                  Elements(history[p]) \subseteq AcceptedTimes(req[p].ip)
             /\ pc[p] = "set" =>
                  Elements(SubSeq(history[p], 2, Len(history[p])))
                    \subseteq AcceptedTimes(req[p].ip))

\* A key has an entry; a request of that key is about to store while a
\* request of another key, which has no entry, has read the empty history.
C16_Witness ==
  \E p, o \in Workers :
    /\ pc[p] = "set" /\ pc[o] = "got"
    /\ req[p].ip /= req[o].ip
    /\ req[p].ip \in DOMAIN cache
    /\ req[o].ip \notin DOMAIN cache
    /\ history[o] = <<>>

\* The accepted requests that fill the history at the verdict i: those i
\* counted and, if i was accepted, i itself.
FullAt(i) ==
  LiveBefore(i, log[i].now) \cup
    (IF log[i].verdict = "Accepted" THEN {i} ELSE {})
\* The oldest timestamp of a nonempty set of log positions.
OldestOf(S) == CHOOSE t \in {log[e].now : e \in S} :
                 \A e \in S : t <= log[e].now

\* C17: when the history of a key is full at a verdict i (the last accepted
\* one, or a rejected one) and T0 is its oldest timestamp, the first
\* request of the key decided at or after T0 + Window is Accepted, however
\* many requests of the key were rejected in between.
C17_Recovery ==
  \A i, j \in DOMAIN log :
    (/\ i < j
     /\ log[i].key = log[j].key
     /\ Cardinality(FullAt(i)) >= log[i].limit
     /\ log[j].now >= OldestOf(FullAt(i)) + Window
     /\ \A m \in (i + 1)..(j - 1) :
          log[m].key = log[i].key =>
            /\ log[m].verdict = "Rejected"
            /\ log[m].now < OldestOf(FullAt(i)) + Window)
    => log[j].verdict = "Accepted"

\* A full history, a rejection, and the acceptance of the first request
\* made once the oldest timestamp was Window old.
C17_Witness ==
  \E i, m, j \in DOMAIN log :
    /\ i < m /\ m < j
    /\ log[i].key = log[m].key /\ log[i].key = log[j].key
    /\ log[i].verdict = "Accepted" /\ log[i].remaining = 0
    /\ log[m].verdict = "Rejected"
    /\ log[j].verdict = "Accepted"
    /\ log[j].now >= OldestOf(FullAt(i)) + Window

\* C18: with requests served one at a time, an entry never expires before
\* all its timestamps are stale, so reading through the expiry and reading
\* the stored list regardless of it give the same pruned history at every
\* time, and every verdict counts exactly the accepted requests of the key
\* inside the window, as a limiter on a store without expiry would.
C18_ExpiryLosesNothing ==
  /\ \A k \in DOMAIN cache :
       /\ \A i \in DOMAIN cache[k].val :
            cache[k].val[i] + Window <= cache[k].exp
       /\ \A t \in clock..MaxTime :
            Prune(CacheGet(cache, k, <<>>, t), t, DEFAULT_DURATION)
              = Prune(cache[k].val, t, DEFAULT_DURATION)
  /\ \A j \in DOMAIN log :
       LET live == Cardinality(LiveBefore(j, log[j].now))
       IN IF log[j].verdict = "Accepted"
          THEN log[j].remaining = log[j].limit - live - 1
          ELSE live >= log[j].limit

\* A worker has read the empty history because the entry of its key, which
\* still holds timestamps, has expired.
C18_Witness ==
  \E p \in Workers :
    /\ pc[p] = "got"
    /\ history[p] = <<>>
    /\ req[p].ip \in DOMAIN cache
    /\ cache[req[p].ip].val /= <<>>
    /\ cache[req[p].ip].exp <= clock

\* C19: the view runs only for a request whose check returned the
\* not-limited or an Accepted result; a request that ended in RateExceeded,
\* NotAuthenticated or a store failure never reaches it.  When the view of
\* an accepted request starts, its timestamp is already stored, and it
\* stays stored, with the verdict, when the view fails.
C19_GateBeforeView ==
  /\ [](\A p \in Workers : pc[p] = "view" =>
          \/ result[p] = NotLimited
          \/ /\ result[p].exc = "none"
             /\ result[p].throttled
             /\ "set" \in storeOps[p]
             /\ req[p].ip \in DOMAIN cache
             /\ cache[req[p].ip].val = history[p]
             /\ cache[req[p].ip].val[1] = now[p])
  /\ [][/\ (\/ sent'.response.status = HTTP_200_OK
            \/ sent'.response = Propagated("ViewError")) =>
             \E p \in Workers :
               /\ pc[p] = "view" /\ pc'[p] = "idle"
               /\ sent'.result = result[p]
               /\ result[p].exc = "none"
        /\ sent'.result.exc \in {"RateExceeded", "NotAuthenticated",
                                 "StoreError"} =>
             \A p \in Workers : pc[p] = "view" <=> pc'[p] = "view"
        /\ (sent'.response = Propagated("ViewError")
              /\ sent'.result.throttled) =>
             /\ cache' = cache
             /\ log' = log
             /\ sent'.req.ip \in DOMAIN cache'
             /\ \E p \in Workers :
                  pc[p] = "view" /\ cache'[sent'.req.ip].val[1] = now[p]]_vars

\* The view of an accepted request failed and the request's timestamp is in
\* the cache.
C19_Witness ==
  /\ sent.response = Propagated("ViewError")
  /\ sent.result.throttled
  /\ sent.req.ip \in DOMAIN cache
  /\ log /= <<>>
  /\ log[Len(log)].verdict = "Accepted"
  /\ cache[sent.req.ip].val[1] = log[Len(log)].now

\* C20: routes with different quotas share the history of a client: a
\* request on a route with quota q is Accepted exactly when fewer than q
\* requests of the client, on whatever route, were accepted inside the
\* window, so no route accepts more than its quota in any interval
\* (t - Window, t]; the stored history is the client's, not the route's.
C20_SharedHistory ==
  /\ \A j \in DOMAIN log :
       log[j].verdict = "Accepted" <=>
         Cardinality(LiveBefore(j, log[j].now)) < log[j].limit
  /\ \A k \in Keys, t \in 0..MaxTime, a \in quotas :
       Cardinality({i \in AcceptedIn(k, t) :
                      log[i].limit = EffectiveQuota(a)})
         <= EffectiveQuota(a)
  /\ \A k \in DOMAIN cache :
       /\ Elements(cache[k].val) \subseteq AcceptedTimes(k)
       /\ \E i \in AcceptedOf(k) :
            /\ \A o \in AcceptedOf(k) : o <= i
            /\ Len(cache[k].val) = log[i].limit - log[i].remaining

\* The history of a client is longer than the quota of the route that has
\* just rejected the client, and holds a request accepted on another route.
C20_Witness ==
  /\ log /= <<>>
  /\ log[Len(log)].verdict = "Rejected"
  /\ log[Len(log)].key \in DOMAIN cache
  /\ Len(cache[log[Len(log)].key].val) > log[Len(log)].limit
  /\ \E i \in DOMAIN log :
       /\ log[i].key = log[Len(log)].key
       /\ log[i].verdict = "Accepted"
       /\ log[i].limit /= log[Len(log)].limit

====
